---- MODULE Spec2Model ----
(***************************************************************************)
(* Model of mmworkbench/components/classifier.py: the ClassifierConfig     *)
(* value object and the Classifier lifecycle controller (fit with cache    *)
(* short-circuit, predict, predict_proba, evaluate, dump, load) together   *)
(* with the files dump and load work on.                                   *)
(*                                                                         *)
(* Python values are modelled as records so that any two of them can be    *)
(* compared: None is [none |-> TRUE], a str used as a config value is      *)
(* [str |-> s], a dict is [dict |-> set of [k, v] items].  Text that is    *)
(* hashed or written to the sidecar file is a sequence of characters, the  *)
(* empty string '' being << >>.                                            *)
(***************************************************************************)
EXTENDS Integers, Sequences, FiniteSets

(***************************************************************************)
(* Bounds and paths                                                        *)
(***************************************************************************)
\* the contents a resource of the resource loader can have
NumVersions == 2
\* the probabilities a model reports for a label
NumProbas == 2

\* One Classifier object is alive at a time: classifiers share nothing but
\* the files they dump and load, and constructing a new object (Construct)
\* leaves the files of the earlier one in place.
\* The model paths: ModelPath lies in the folder "models", BarePath has no
\* folder part.  NoPath is previous_model_path=None (or ''), falsy at line 199.
ModelPath == [folder |-> "models", name |-> "clf.pkl"]
BarePath == [folder |-> "", name |-> "clf.pkl"]
Paths == {ModelPath, BarePath}
NoPath == [folder |-> "", name |-> ""]

(***************************************************************************)
(* Python values                                                           *)
(***************************************************************************)
None == [none |-> TRUE]
Str(s) == [str |-> s]
Dict(items) == [dict |-> items]
Item(k, v) == [k |-> k, v |-> v]
EmptyStr == << >>

\* dict.get(key): the value under key, None when the key is absent
DictGet(d, key) ==
    IF \E e \in d.dict : e.k = key
    THEN (CHOOSE e \in d.dict : e.k = key).v
    ELSE None

\* key in d
HasKey(d, key) == \E e \in d.dict : e.k = key

\* d.update(other)
DictUpdate(d, other) == Dict({e \in d.dict : ~HasKey(other, e.k)} \cup other.dict)

\* d.pop(key, None)
DictPop(d, key) == Dict({e \in d.dict : e.k # key})

\* the truth value of None, of a dict and of a str
Truthy(v) == v # None /\ v # Dict({}) /\ v # Str("")

\* the orders in which iterating a dict or a set with the elements S can
\* give them
DictOrders(S) ==
    {f \in [1..Cardinality(S) -> S] : \A i, j \in DOMAIN f : f[i] = f[j] => i = j}

(***************************************************************************)
(* ClassifierConfig                                                        *)
(***************************************************************************)
NoError == [type |-> "", arg |-> ""]

\* the required arguments that are None (lines 54-55)
MissingRequired(model_type, features) ==
    {a \in {"model_type", "features"} :
        (a = "model_type" /\ model_type = None) \/ (a = "features" /\ features = None)}

\* NoParamSource without the look at the grid
NoParamSource_IgnoresGrid(params, param_selection) ==
    params = None /\ param_selection = None

\* params is None and (param_selection is None or param_selection.get('grid') is None)
NoParamSource(params, param_selection) ==
    /\ params = None
    /\ \/ param_selection = None
       \/ DictGet(param_selection, "grid") = None

\* ClassifierConfig.__init__: the set of outcomes of a construction.  The loop
\* at line 54 runs over a dict, whose iteration order decides which missing
\* argument the TypeError names when both are missing.
ClassifierConfigInit(model_type, features, model_settings, params, param_selection) ==
    IF MissingRequired(model_type, features) # {}
    THEN {[exc |-> [type |-> "TypeError", arg |-> a], obj |-> None] :
             a \in MissingRequired(model_type, features)}
    ELSE IF NoParamSource(params, param_selection)
    THEN {[exc |-> [type |-> "ValueError", arg |-> "params"], obj |-> None]}
    ELSE {[exc |-> NoError,
           obj |-> [model_type |-> model_type, features |-> features,
                    model_settings |-> model_settings, params |-> params,
                    param_selection |-> param_selection]]}

\* ClassifierConfig.from_model_config: to_dict() without example_type and
\* label_type, handed to the constructor
from_model_config(model_config) ==
    ClassifierConfigInit(model_config.model_type, model_config.features,
                         model_config.model_settings, model_config.params,
                         model_config.param_selection)

(***************************************************************************)
(* Collaborators: model configurations, training data, resources           *)
(***************************************************************************)
\* The ModelConfig objects _get_model_config hands to fit
ParamsConfig ==
    [model_type |-> Str("logreg"),
     features |-> Dict({Item("bag-of-words", Dict({}))}),
     model_settings |-> None,
     params |-> Dict({Item("C", Str("1.0"))}),
     param_selection |-> None,
     example_type |-> Str("query"), label_type |-> Str("class")]

GridConfig ==
    [model_type |-> Str("logreg"),
     features |-> Dict({Item("in-gaz", Dict({}))}),
     model_settings |-> None,
     params |-> None,
     param_selection |-> Dict({Item("type", Str("k-fold")),
                               Item("grid", Dict({Item("C", Str("10,100"))}))}),
     example_type |-> Str("query"), label_type |-> Str("class")]

ModelConfigs == {ParamsConfig, GridConfig}

\* a configuration whose features need two resources
FreqConfig ==
    [model_type |-> Str("logreg"),
     features |-> Dict({Item("in-gaz", Dict({})), Item("freq", Dict({}))}),
     model_settings |-> None,
     params |-> Dict({Item("C", Str("1.0"))}),
     param_selection |-> None,
     example_type |-> Str("query"), label_type |-> Str("class")]

\* Labelled queries, as the sequence of their class labels (query i carries
\* label i); what _get_queries_and_labels resolves for a call.
NoQueries == << >>
OneClass == <<"a", "a">>
TrainSets == {<<"a", "b">>, <<"b", "a", "b">>}
DataSets == {NoQueries, OneClass} \cup TrainSets

Classes(data) == {data[i] : i \in DOMAIN data}

\* Resources of the resource loader; a resource's content is its version
ResourceOrder == <<"gazetteers", "w_freq">>
ResourceNames == {ResourceOrder[i] : i \in DOMAIN ResourceOrder}
ResourceStates == [ResourceNames -> 1..NumVersions]

\* model_config.required_resources(): the resources the features need
required_resources(model_config) ==
    {r \in ResourceNames :
        \/ r = "gazetteers" /\ DictGet(model_config.features, "in-gaz") # None
        \/ r = "w_freq" /\ DictGet(model_config.features, "freq") # None}

\* the names as they are enumerated, left unsorted
Sorted_AsEnumerated(names) == names

\* sorted(names) for the sequence names in which required_resources() is
\* enumerated: ResourceOrder lists the names in lexicographic order
Sorted(names) ==
    SelectSeq(ResourceOrder, LAMBDA r : \E i \in DOMAIN names : names[i] = r)

(***************************************************************************)
(* Composite hasher                                                        *)
(***************************************************************************)
\* hashlib sha1: hexdigest of the bytes fed by the update calls, modelled
\* as collision free; a hex digest is never the empty string
Sha1Hex(bytes) == << [sha1 |-> bytes] >>

\* subclass hook _get_queries_and_labels_hash: deterministic for the data
_get_queries_and_labels_hash(data) == << [queries |-> data] >>

\* model_config.to_json(): json.dumps(to_dict(), sort_keys=True)
to_json(model_config) == << [json |-> model_config] >>

\* resource_loader.hash_feature_resource(resource)
hash_feature_resource(rsc, resource) == << [name |-> resource, content |-> rsc[resource]] >>

RECURSIVE UpdateAll(_, _)
\* rsc_hash.update(...) for each resource of the sequence, in order
UpdateAll(rsc, names) ==
    IF names = << >> THEN << >>
    ELSE hash_feature_resource(rsc, Head(names)) \o UpdateAll(rsc, Tail(names))

\* lines 429-445 when required_resources() is enumerated as the sequence
\* resources
hash_obj(model_config, data, rsc, resources) ==
    Sha1Hex(_get_queries_and_labels_hash(data)
            \o to_json(model_config)
            \o Sha1Hex(UpdateAll(rsc, Sorted(resources))))

\* the hashes _get_model_hash can return: required_resources() is a set,
\* enumerated in an order of its own choosing
ModelHashes(model_config, data, rsc) ==
    {hash_obj(model_config, data, rsc, resources) :
        resources \in DictOrders(required_resources(model_config))}

\* Classifier._get_model_hash
_get_model_hash(model_config, data, rsc) ==
    CHOOSE h \in ModelHashes(model_config, data, rsc) : TRUE

(***************************************************************************)
(* State                                                                   *)
(***************************************************************************)
VARIABLES
    clf,        \* the attributes _model, ready, dirty, config, hash of the classifier
    file,       \* file[p]: the model file at path p
    sidecar,    \* sidecar[p]: the text of the file p + '.hash', when it exists
    dirs,       \* the folders that exist
    last,       \* the last call: its path, what it returned or raised, what it called
    history,    \* the last call that set attributes of the classifier: its method,
                \* for a fit that trained the inputs it trained on, for a load
                \* whether the classifier was newly constructed when it was called
    dumped,     \* dumped[p]: when the last dump to p completed, the hash the classifier
                \* held, the method that had last set its attributes and its inputs
    cfg_args,   \* arguments of a ClassifierConfig construction
    cfg_result, \* what that construction returned or raised
    hash_last,  \* the last call of _get_model_hash: arguments, resources, the
                \* order required_resources() enumerated them in, the result
    hash_prev,  \* the call of _get_model_hash before that one
    merge_args, \* loaded_config and kwargs of a call of _get_model_config
    merge_result \* what that call handed to ModelConfig and what came of it

vars == <<clf, file, sidecar, dirs, last, history, dumped, cfg_args, cfg_result,
          hash_last, hash_prev, merge_args, merge_result>>
life_vars == <<clf, file, sidecar, dirs, last, history, dumped>>
cfg_vars == <<cfg_args, cfg_result>>
hash_vars == <<hash_last, hash_prev>>
merge_vars == <<merge_args, merge_result>>

\* Classifier.__init__
Classifier__init__ ==
    [_model |-> None, ready |-> FALSE, dirty |-> FALSE, config |-> None, hash |-> EmptyStr]

Absent == [kind |-> "absent"]
Truncated == [kind |-> "truncated"]
Pickle(obj) == [kind |-> "pickle", obj |-> obj]
NoSidecar == [exists |-> FALSE, text |-> EmptyStr]
SidecarText(text) == [exists |-> TRUE, text |-> text]

\* os.path.dirname(model_path)
dirname(model_path) == model_path.folder

NoExc == [type |-> "", path |-> NoPath]
Raised(type, path) == [type |-> type, path |-> path]
\* a call's record: the method, the path argument, what it
\* raised and returned, the collaborators it called in order, and for a fit
\* whether it took the branch of line 201
Call(op, path, exc, ret, calls, hit) ==
    [op |-> op, path |-> path, exc |-> exc,
     ret |-> ret, calls |-> calls, hit |-> hit]

NoCfgArgs == [none |-> TRUE]

(***************************************************************************)
(* load and _load_hash                                                     *)
(***************************************************************************)
\* _load_hash giving the digest of no bytes when there is no hash file
_load_hash_DigestOfNothing(model_path) ==
    IF ~sidecar[model_path].exists THEN Sha1Hex(<< >>) ELSE sidecar[model_path].text

\* _load_hash giving the classifier's own hash when there is no hash file
_load_hash_FallsBack(model_path) ==
    IF ~sidecar[model_path].exists THEN clf.hash ELSE sidecar[model_path].text

\* Classifier._load_hash
_load_hash(model_path) ==
    IF ~sidecar[model_path].exists THEN EmptyStr ELSE sidecar[model_path].text

\* joblib.load(model_path): the exceptions it can raise for the file; a
\* missing file cannot be opened, a truncated one fails in the unpickler or,
\* for a compressed pickle, in the file object
JoblibLoadErrors(f) ==
    IF f.kind = "absent" THEN {"IOError"}
    ELSE IF f.kind = "truncated" THEN {"EOFError", "UnpicklingError", "IOError"}
    ELSE {}

\* except (OSError, IOError)
CaughtByLoad(type) == type \in {"OSError", "IOError"}

\* a load whose failed joblib.load leaves the classifier without model
load_ErrorDropsModel(self, model_path) ==
    IF JoblibLoadErrors(file[model_path]) # {}
    THEN {[self |-> [self EXCEPT !._model = None, !.ready = FALSE],
           exc |-> IF CaughtByLoad(e) THEN Raised("ClassifierLoadError", model_path)
                   ELSE Raised(e, NoPath),
           calls |-> <<"joblib.load">>] : e \in JoblibLoadErrors(file[model_path])}
    ELSE LET obj == file[model_path].obj
             cfg == IF obj # None
                    THEN (CHOOSE r \in from_model_config(obj.config) : TRUE).obj
                    ELSE self.config
         IN {[self |-> [_model |-> obj, ready |-> TRUE, dirty |-> FALSE,
                        config |-> cfg, hash |-> _load_hash(model_path)],
              exc |-> NoExc,
              calls |-> <<"joblib.load">>
                        \o (IF obj # None THEN <<"model.initialize_resources">> ELSE << >>)
                        \o <<"_load_hash">>]}

\* load without line 340: the hash is not read
load_WithoutHash(self, model_path) ==
    IF JoblibLoadErrors(file[model_path]) # {}
    THEN {[self |-> self,
           exc |-> IF CaughtByLoad(e) THEN Raised("ClassifierLoadError", model_path)
                   ELSE Raised(e, NoPath),
           calls |-> <<"joblib.load">>] : e \in JoblibLoadErrors(file[model_path])}
    ELSE LET obj == file[model_path].obj
             cfg == IF obj # None
                    THEN (CHOOSE r \in from_model_config(obj.config) : TRUE).obj
                    ELSE self.config
         IN {[self |-> [_model |-> obj, ready |-> TRUE, dirty |-> FALSE,
                        config |-> cfg, hash |-> self.hash],
              exc |-> NoExc,
              calls |-> <<"joblib.load">>
                        \o (IF obj # None THEN <<"model.initialize_resources">> ELSE << >>)]}

\* load without line 343: dirty is left as it was
load_KeepsDirty(self, model_path) ==
    IF JoblibLoadErrors(file[model_path]) # {}
    THEN {[self |-> self,
           exc |-> IF CaughtByLoad(e) THEN Raised("ClassifierLoadError", model_path)
                   ELSE Raised(e, NoPath),
           calls |-> <<"joblib.load">>] : e \in JoblibLoadErrors(file[model_path])}
    ELSE LET obj == file[model_path].obj
             cfg == IF obj # None
                    THEN (CHOOSE r \in from_model_config(obj.config) : TRUE).obj
                    ELSE self.config
         IN {[self |-> [_model |-> obj, ready |-> TRUE, dirty |-> self.dirty,
                        config |-> cfg, hash |-> _load_hash(model_path)],
              exc |-> NoExc,
              calls |-> <<"joblib.load">>
                        \o (IF obj # None THEN <<"model.initialize_resources">> ELSE << >>)
                        \o <<"_load_hash">>]}

\* Classifier.load: the outcomes [self, exc, calls] of load(model_path) on a
\* classifier whose attributes are self
load(self, model_path) ==
    IF JoblibLoadErrors(file[model_path]) # {}
    THEN {[self |-> self,
           exc |-> IF CaughtByLoad(e) THEN Raised("ClassifierLoadError", model_path)
                   ELSE Raised(e, NoPath),
           calls |-> <<"joblib.load">>] : e \in JoblibLoadErrors(file[model_path])}
    ELSE LET obj == file[model_path].obj
             cfg == IF obj # None
                    THEN (CHOOSE r \in from_model_config(obj.config) : TRUE).obj
                    ELSE self.config
         IN {[self |-> [_model |-> obj, ready |-> TRUE, dirty |-> FALSE,
                        config |-> cfg, hash |-> _load_hash(model_path)],
              exc |-> NoExc,
              calls |-> <<"joblib.load">>
                        \o (IF obj # None THEN <<"model.initialize_resources">> ELSE << >>)
                        \o <<"_load_hash">>]}

(***************************************************************************)
(* fit                                                                     *)
(***************************************************************************)
\* the comparison of line 201 turned round
CacheHit_Negated(previous_model_path, old_hash, new_hash) ==
    previous_model_path # NoPath /\ old_hash # new_hash

\* line 199 and line 201: a previous model path is given and its recorded
\* hash equals the new one
CacheHit(previous_model_path, old_hash, new_hash) ==
    previous_model_path # NoPath /\ old_hash = new_hash

\* line 207 with < in place of <=
TooFewClasses_OffByOne(classes) == Cardinality(classes) < 1

\* line 207: len(set(classes)) <= 1
TooFewClasses(classes) == Cardinality(classes) <= 1

\* the model create_model builds, once fit on the data with the resources
\* its configuration requires
FittedModel(model_config, data, rsc) ==
    [config |-> model_config, data |-> data,
     rsc |-> [r \in required_resources(model_config) |-> rsc[r]]]

\* Classifier.fit: the outcomes [self, exc, calls, hit] of
\* fit(queries, label_set, previous_model_path, **kwargs), where model_config
\* is what _get_model_config(**kwargs) returns and data what queries and
\* label_set resolve to
fit(self, model_config, data, rsc, previous_model_path) ==
    LET new_hash == _get_model_hash(model_config, data, rsc)
        old_hash == IF previous_model_path # NoPath
                    THEN _load_hash(previous_model_path) ELSE EmptyStr
        head == <<"_get_model_config", "create_model", "_get_model_hash">>
                \o (IF previous_model_path # NoPath THEN <<"_load_hash">> ELSE << >>)
    IN IF CacheHit(previous_model_path, old_hash, new_hash)
       THEN {[self |-> o.self, exc |-> o.exc, calls |-> head \o o.calls, hit |-> TRUE] :
                o \in load(self, previous_model_path)}
       ELSE IF TooFewClasses(Classes(data))
       THEN {[self |-> self, exc |-> NoExc,
              calls |-> head \o <<"_get_queries_and_labels">>, hit |-> FALSE]}
       ELSE {[self |-> [_model |-> FittedModel(model_config, data, rsc),
                        ready |-> TRUE, dirty |-> TRUE,
                        config |-> (CHOOSE r \in from_model_config(model_config) : TRUE).obj,
                        hash |-> new_hash],
              exc |-> NoExc,
              calls |-> head \o <<"_get_queries_and_labels", "model.initialize_resources",
                                  "model.fit">>,
              hit |-> FALSE]}

(***************************************************************************)
(* dump                                                                    *)
(***************************************************************************)
\* how far a dump gets: "makedirs" fails creating the folder, "artifact"
\* fails while joblib.dump writes (the file is left truncated), "sidecar"
\* fails opening the hash file after the model file is written, "done"
\* runs to the end
DumpStops(folder) ==
    IF folder \notin dirs /\ folder = "" THEN {"makedirs"}
    ELSE {"artifact", "sidecar", "done"}

\* a dump whose line 323 assigns ready in place of dirty
dump_ClearsReady(self, model_path) ==
    {[self |-> IF stop = "done" THEN [self EXCEPT !.ready = FALSE] ELSE self,
      exc |-> IF stop = "done" THEN NoExc
              ELSE IF stop = "makedirs" THEN Raised("OSError", NoPath)
              ELSE Raised("IOError", NoPath),
      dirs |-> IF stop = "makedirs" THEN dirs ELSE dirs \cup {dirname(model_path)},
      file |-> IF stop = "makedirs" THEN file[model_path]
               ELSE IF stop = "artifact" THEN Truncated
               ELSE Pickle(self._model),
      sidecar |-> IF stop = "done" THEN SidecarText(self.hash) ELSE sidecar[model_path],
      calls |-> IF stop = "makedirs" THEN <<"os.makedirs">> ELSE <<"joblib.dump">>,
      stop |-> stop] : stop \in DumpStops(dirname(model_path))}

\* Classifier.dump: the outcomes [self, exc, file, sidecar, dirs, calls, stop]
\* of dump(model_path); file and sidecar are the new files at model_path
dump(self, model_path) ==
    {[self |-> IF stop = "done" THEN [self EXCEPT !.dirty = FALSE] ELSE self,
      exc |-> IF stop = "done" THEN NoExc
              ELSE IF stop = "makedirs" THEN Raised("OSError", NoPath)
              ELSE Raised("IOError", NoPath),
      dirs |-> IF stop = "makedirs" THEN dirs ELSE dirs \cup {dirname(model_path)},
      file |-> IF stop = "makedirs" THEN file[model_path]
               ELSE IF stop = "artifact" THEN Truncated
               ELSE Pickle(self._model),
      sidecar |-> IF stop = "done" THEN SidecarText(self.hash) ELSE sidecar[model_path],
      calls |-> IF stop = "makedirs" THEN <<"os.makedirs">> ELSE <<"joblib.dump">>,
      stop |-> stop] : stop \in DumpStops(dirname(model_path))}

(***************************************************************************)
(* predict, predict_proba, evaluate                                        *)
(***************************************************************************)
\* the query argument: a Query object or a str
QueryKinds == {"Query", "str"}

\* line 232: a str query is turned into a Query by the resource loader
CreateQuery(kind) ==
    IF kind # "Query" THEN <<"query_factory.create_query">> ELSE << >>

\* not self._model
NoModel(self) == self._model = None

\* model.predict_proba([query])[0][1].items(): every label of the model with
\* a probability, in the dict's order
ProbaItems(model) ==
    {[i \in DOMAIN order |-> [label |-> order[i], proba |-> pr[order[i]]]] :
        order \in DictOrders(Classes(model.data)),
        pr \in [Classes(model.data) -> 1..NumProbas]}

RECURSIVE InsertDescending(_, _)
\* x put behind every element whose probability is not smaller than its own
InsertDescending(sorted, x) ==
    IF sorted = << >> THEN <<x>>
    ELSE IF Head(sorted).proba >= x.proba
         THEN <<Head(sorted)>> \o InsertDescending(Tail(sorted), x)
         ELSE <<x>> \o sorted

RECURSIVE SortedByProba(_)
\* sorted(class_proba_tuples, key=lambda x: x[1], reverse=True): a stable sort
SortedByProba(items) ==
    IF items = << >> THEN << >>
    ELSE InsertDescending(SortedByProba(SubSeq(items, 1, Len(items) - 1)),
                          items[Len(items)])

\* Classifier.predict: the outcomes [ret, exc, calls]
predict(self, kind) ==
    IF NoModel(self) THEN {[ret |-> None, exc |-> NoExc, calls |-> << >>]}
    ELSE {[ret |-> [label |-> l], exc |-> NoExc,
           calls |-> CreateQuery(kind) \o <<"model.predict">>] :
             l \in Classes(self._model.data)}

\* Classifier.predict_proba: the outcomes [ret, exc, calls], where items is
\* predict_proba_result[0][1].items() of the model's result
predict_proba(self, kind, items) ==
    IF NoModel(self) THEN {[ret |-> None, exc |-> NoExc, calls |-> << >>]}
    ELSE {[ret |-> [list |-> SortedByProba(items)], exc |-> NoExc,
           calls |-> CreateQuery(kind) \o <<"model.predict_proba">>]}

\* evaluate resolving the queries before it looks for the model
evaluate_ResolvesFirst(self, data) ==
    IF NoModel(self)
    THEN {[ret |-> None, exc |-> NoExc, calls |-> <<"_get_queries_and_labels">>]}
    ELSE IF data = NoQueries
    THEN {[ret |-> None, exc |-> NoExc, calls |-> <<"_get_queries_and_labels">>]}
    ELSE {[ret |-> [evaluation |-> "ModelEvaluation"], exc |-> NoExc,
           calls |-> <<"_get_queries_and_labels", "model.evaluate">>]}

\* Classifier.evaluate: the outcomes [ret, exc, calls]
evaluate(self, data) ==
    IF NoModel(self) THEN {[ret |-> None, exc |-> NoExc, calls |-> << >>]}
    ELSE IF data = NoQueries
    THEN {[ret |-> None, exc |-> NoExc, calls |-> <<"_get_queries_and_labels">>]}
    ELSE {[ret |-> [evaluation |-> "ModelEvaluation"], exc |-> NoExc,
           calls |-> <<"_get_queries_and_labels", "model.evaluate">>]}

(***************************************************************************)
(* The lifecycle: one action per call                                      *)
(***************************************************************************)
NotDumped == [done |-> FALSE]
NoInput == << >>
New == [op |-> "new", input |-> NoInput, fresh |-> TRUE]
\* the history after a call of method op that set attributes
After(op, input) ==
    [op |-> op, input |-> input, fresh |-> op = "load" /\ history.op = "new"]

Init ==
    /\ clf = Classifier__init__
    /\ file = [p \in Paths |-> Absent]
    /\ sidecar = [p \in Paths |-> NoSidecar]
    /\ dirs = {}
    /\ last = Call("__init__", NoPath, NoExc, None, << >>, FALSE)
    /\ history = New
    /\ dumped = [p \in Paths |-> NotDumped]
    /\ cfg_args = NoCfgArgs
    /\ cfg_result = None
    /\ hash_last = None
    /\ hash_prev = None
    /\ merge_args = None
    /\ merge_result = None

\* Classifier(resource_loader): a new classifier object takes the place of
\* the current one
Construct ==
    /\ clf' = Classifier__init__
    /\ history' = New
    /\ last' = Call("__init__", NoPath, NoExc, None, << >>, FALSE)
    /\ UNCHANGED <<file, sidecar, dirs, dumped, cfg_vars, hash_vars, merge_vars>>

\* fit(queries, label_set, previous_model_path, **kwargs) where the
\* arguments resolve to model_config and data and the resources are rsc
FitCall(model_config, data, rsc, previous_model_path) ==
    \E o \in fit(clf, model_config, data, rsc, previous_model_path) :
        /\ clf' = o.self
        /\ history' = IF o.exc # NoExc THEN history
                      ELSE IF o.hit THEN After("load", NoInput)
                      ELSE IF o.calls[Len(o.calls)] = "model.fit"
                           THEN After("fit", <<model_config, data, rsc>>)
                      ELSE history
        /\ last' = Call("fit", previous_model_path, o.exc, None, o.calls, o.hit)
        /\ UNCHANGED <<file, sidecar, dirs, dumped, cfg_vars, hash_vars, merge_vars>>

\* The inputs of the fit calls: a base input and every input that differs
\* from it in one of the configuration, the data and the content of a
\* resource the configuration requires
BaseInput == <<GridConfig, <<"a", "b">>, [r \in ResourceNames |-> 1]>>
FitInputs ==
    {<<model_config, BaseInput[2], BaseInput[3]>> : model_config \in ModelConfigs}
    \cup {<<BaseInput[1], data, BaseInput[3]>> : data \in DataSets}
    \cup {<<BaseInput[1], BaseInput[2], [BaseInput[3] EXCEPT ![r] = v]>> :
              r \in required_resources(BaseInput[1]), v \in 1..NumVersions}

Fit ==
    \E i \in FitInputs, previous_model_path \in Paths \cup {NoPath} :
        FitCall(i[1], i[2], i[3], previous_model_path)

\* load(model_path)
LoadCall(model_path) ==
    \E o \in load(clf, model_path) :
        /\ clf' = o.self
        /\ history' = IF o.exc = NoExc THEN After("load", NoInput) ELSE history
        /\ last' = Call("load", model_path, o.exc, None, o.calls, FALSE)
        /\ UNCHANGED <<file, sidecar, dirs, dumped, cfg_vars, hash_vars, merge_vars>>

Load == \E model_path \in Paths : LoadCall(model_path)

\* dump(model_path)
DumpCall(model_path) ==
    \E o \in dump(clf, model_path) :
        /\ clf' = o.self
        /\ file' = [file EXCEPT ![model_path] = o.file]
        /\ sidecar' = [sidecar EXCEPT ![model_path] = o.sidecar]
        /\ dirs' = o.dirs
        /\ history' = IF o.stop = "done" THEN After("dump", NoInput) ELSE history
        /\ dumped' = [dumped EXCEPT ![model_path] =
                         IF o.stop = "done"
                         THEN [done |-> TRUE, hash |-> clf.hash, after |-> history.op,
                               input |-> history.input]
                         ELSE IF o.stop = "makedirs" THEN @
                         ELSE NotDumped]
        /\ last' = Call("dump", model_path, o.exc, None, o.calls, FALSE)
        /\ UNCHANGED <<cfg_vars, hash_vars, merge_vars>>

Dump == \E model_path \in Paths : DumpCall(model_path)

\* predict(query)
PredictCall(kind) ==
    \E o \in predict(clf, kind) :
        /\ last' = Call("predict", NoPath, o.exc, o.ret, o.calls, FALSE)
        /\ UNCHANGED <<clf, file, sidecar, dirs, history, dumped, cfg_vars, hash_vars, merge_vars>>

Predict == \E kind \in QueryKinds : PredictCall(kind)

\* predict_proba(query) where the model reports items
PredictProbaCall(kind, items) ==
    \E o \in predict_proba(clf, kind, items) :
        /\ last' = Call("predict_proba", NoPath, o.exc, o.ret, o.calls, FALSE)
        /\ UNCHANGED <<clf, file, sidecar, dirs, history, dumped, cfg_vars, hash_vars, merge_vars>>

\* what the model of the classifier can report, nothing without a model
ModelResults(self) == IF NoModel(self) THEN {<< >>} ELSE ProbaItems(self._model)

PredictProba ==
    \E kind \in QueryKinds, items \in ModelResults(clf) : PredictProbaCall(kind, items)

\* an evaluate that marks the classifier as not dirty
EvaluateCall_ClearsDirty(data) ==
    \E o \in evaluate(clf, data) :
        /\ clf' = [clf EXCEPT !.dirty = FALSE]
        /\ last' = Call("evaluate", NoPath, o.exc, o.ret, o.calls, FALSE)
        /\ UNCHANGED <<file, sidecar, dirs, history, dumped, cfg_vars, hash_vars, merge_vars>>

\* evaluate(queries, label_set) where the arguments resolve to data
EvaluateCall(data) ==
    \E o \in evaluate(clf, data) :
        /\ last' = Call("evaluate", NoPath, o.exc, o.ret, o.calls, FALSE)
        /\ UNCHANGED <<clf, file, sidecar, dirs, history, dumped, cfg_vars, hash_vars, merge_vars>>

Evaluate == \E data \in DataSets : EvaluateCall(data)

Next ==
    \/ Construct
    \/ Fit
    \/ Load
    \/ Dump
    \/ Predict
    \/ PredictProba
    \/ Evaluate

Spec == Init /\ [][Next]_vars

(***************************************************************************)
(* ClassifierConfig construction on its own                                *)
(***************************************************************************)
Grid == Dict({Item("C", Str("10,100"))})

ConfigArgs ==
    [model_type : {None, Str("logreg")},
     features : {None, Dict({Item("bag-of-words", Dict({}))})},
     model_settings : {None, Dict({})},
     params : {None, Dict({Item("C", Str("1.0"))})},
     param_selection : {None, Dict({}), Dict({Item("grid", None)}),
                        Dict({Item("grid", Grid)}),
                        Dict({Item("type", Str("k-fold")), Item("grid", Grid)})}]

InitConfig ==
    /\ clf = Classifier__init__
    /\ file = [p \in Paths |-> Absent]
    /\ sidecar = [p \in Paths |-> NoSidecar]
    /\ dirs = {}
    /\ last = Call("__init__", NoPath, NoExc, None, << >>, FALSE)
    /\ history = New
    /\ dumped = [p \in Paths |-> NotDumped]
    /\ cfg_args \in ConfigArgs
    /\ cfg_result = None
    /\ hash_last = None
    /\ hash_prev = None
    /\ merge_args = None
    /\ merge_result = None

\* ClassifierConfig(**cfg_args)
ConstructConfig ==
    /\ cfg_result = None
    /\ cfg_result' \in ClassifierConfigInit(cfg_args.model_type, cfg_args.features,
                                            cfg_args.model_settings, cfg_args.params,
                                            cfg_args.param_selection)
    /\ UNCHANGED <<cfg_args, life_vars, hash_vars, merge_vars>>

NextConfig == ConstructConfig

SpecConfig == InitConfig /\ [][NextConfig]_vars

(***************************************************************************)
(* _get_model_hash on its own                                              *)
(***************************************************************************)
\* the configurations, data and resource contents _get_model_hash is
\* called with
HashArgs ==
    [model_config : ModelConfigs \cup {FreqConfig}, data : TrainSets, rsc : ResourceStates]

InitHash ==
    /\ clf = Classifier__init__
    /\ file = [p \in Paths |-> Absent]
    /\ sidecar = [p \in Paths |-> NoSidecar]
    /\ dirs = {}
    /\ last = Call("__init__", NoPath, NoExc, None, << >>, FALSE)
    /\ history = New
    /\ dumped = [p \in Paths |-> NotDumped]
    /\ cfg_args = NoCfgArgs
    /\ cfg_result = None
    /\ hash_last = None
    /\ hash_prev = None
    /\ merge_args = None
    /\ merge_result = None

\* self._get_model_hash(model_config, queries, label_set) while the
\* resources of the loader are args.rsc and required_resources() enumerates
\* the names as resources
GetModelHash ==
    \E args \in HashArgs :
      \E resources \in DictOrders(required_resources(args.model_config)) :
        /\ hash_last' = [args |-> args, resources |-> resources,
                         hash |-> hash_obj(args.model_config, args.data, args.rsc,
                                           resources)]
        /\ hash_prev' = hash_last
        /\ UNCHANGED <<life_vars, cfg_vars, merge_vars>>

NextHash == GetModelHash

SpecHash == InitHash /\ [][NextHash]_vars

(***************************************************************************)
(* _get_model_config on its own                                            *)
(***************************************************************************)
\* ModelConfig(**kwargs): the constructor of mmworkbench.models, which
\* validates as ClassifierConfig does; an argument not given is None
ModelConfigInit(kwargs) ==
    {[exc |-> o.exc,
      obj |-> IF o.exc # NoError THEN None
              ELSE [model_type |-> o.obj.model_type, features |-> o.obj.features,
                    model_settings |-> o.obj.model_settings, params |-> o.obj.params,
                    param_selection |-> o.obj.param_selection,
                    example_type |-> DictGet(kwargs, "example_type"),
                    label_type |-> DictGet(kwargs, "label_type")]] :
        o \in ClassifierConfigInit(DictGet(kwargs, "model_type"), DictGet(kwargs, "features"),
                                   DictGet(kwargs, "model_settings"), DictGet(kwargs, "params"),
                                   DictGet(kwargs, "param_selection"))}

\* line 302: kwargs.get('param_selection') and not kwargs.get('params')
SelectionWithoutParams(kwargs) ==
    Truthy(DictGet(kwargs, "param_selection")) /\ ~Truthy(DictGet(kwargs, "params"))

\* Classifier._get_model_config: the outcomes [merged, model_config,
\* loaded_config, out]: whether the except branch ran, the dict handed to the
\* ModelConfig that is returned, the caller's loaded_config after the call
\* (the except branch updates it in place) and what the constructor gave
_get_model_config(loaded_config, kwargs) ==
    LET updated == DictUpdate(loaded_config, kwargs)
        model_config == IF SelectionWithoutParams(kwargs)
                        THEN DictPop(updated, "params") ELSE updated
    IN IF \E o \in ModelConfigInit(kwargs) : o.exc = NoError
       THEN {[merged |-> FALSE, model_config |-> kwargs,
              loaded_config |-> loaded_config, out |-> o] :
                o \in ModelConfigInit(kwargs)}
       ELSE {[merged |-> TRUE, model_config |-> model_config,
              loaded_config |-> model_config, out |-> o] :
                o \in ModelConfigInit(model_config)}

FixedParams == Dict({Item("C", Str("1.0"))})

\* an application configuration with fixed params, and one with a grid
LoadedConfigs ==
    {Dict({Item("model_type", Str("logreg")),
           Item("features", Dict({Item("bag-of-words", Dict({}))})),
           Item("example_type", Str("query")), Item("label_type", Str("class")),
           Item("params", FixedParams)}),
     Dict({Item("model_type", Str("logreg")),
           Item("features", Dict({Item("bag-of-words", Dict({}))})),
           Item("example_type", Str("query")), Item("label_type", Str("class")),
           Item("param_selection", Dict({Item("grid", Grid)}))})}

\* the keyword arguments of a fit call: each of model_type, features, params
\* and param_selection is left out or given one of some values
Given(key, values) == {{}} \cup {{Item(key, v)} : v \in values}

Kwargs ==
    {Dict(a \cup b \cup c \cup d) :
        a \in Given("model_type", {Str("svm")}),
        b \in Given("features", {Dict({Item("in-gaz", Dict({}))})}),
        c \in Given("params", {None, Dict({}), Dict({Item("C", Str("100"))})}),
        d \in Given("param_selection",
                    {None, Dict({}), Dict({Item("grid", None)}), Dict({Item("grid", Grid)})})}

InitMerge ==
    /\ clf = Classifier__init__
    /\ file = [p \in Paths |-> Absent]
    /\ sidecar = [p \in Paths |-> NoSidecar]
    /\ dirs = {}
    /\ last = Call("__init__", NoPath, NoExc, None, << >>, FALSE)
    /\ history = New
    /\ dumped = [p \in Paths |-> NotDumped]
    /\ cfg_args = NoCfgArgs
    /\ cfg_result = None
    /\ hash_last = None
    /\ hash_prev = None
    /\ merge_args \in [loaded_config : LoadedConfigs, kwargs : Kwargs]
    /\ merge_result = None

\* self._get_model_config(loaded_config, **kwargs)
GetModelConfig ==
    /\ merge_result = None
    /\ merge_result' \in _get_model_config(merge_args.loaded_config, merge_args.kwargs)
    /\ UNCHANGED <<merge_args, life_vars, cfg_vars, hash_vars>>

NextMerge == GetModelConfig

SpecMerge == InitMerge /\ [][NextMerge]_vars

(***************************************************************************)
(* Properties                                                              *)
(***************************************************************************)
Called(call, what) == \E k \in DOMAIN call.calls : call.calls[k] = what

\* the hash of the inputs a model was fit on
ModelHash(model) == _get_model_hash(model.config, model.data, model.rsc)

\* C1: whenever a fit takes the cache-hit path (also after a dump that
\* stopped between the model file and the hash file), the model it loads
\* from the path was fit on inputs whose hash is the newly computed one.
C1_NoFalseHit ==
    [][(last'.op = "fit" /\ last'.hit /\ last'.exc = NoExc /\ clf'._model # None)
       => \A i \in FitInputs, p \in Paths :
             (last'.path = p /\ FitCall(i[1], i[2], i[3], p))
             => ModelHash(clf'._model) = _get_model_hash(i[1], i[2], i[3])]_vars

\* C2: a fit with previous_model_path p, called with the very inputs of the
\* fit whose result the last dump to p wrote, loads from p and does not call
\* the model's fit.
C2_HitSkipsFit ==
    [][last'.op = "fit"
       => \A p \in Paths, i \in FitInputs :
             (last'.path = p
              /\ dumped[p].done /\ dumped[p].after = "fit" /\ dumped[p].input = i
              /\ FitCall(i[1], i[2], i[3], p))
             => /\ last'.hit /\ last'.exc = NoExc
                /\ Called(last', "joblib.load")
                /\ ~Called(last', "model.fit")]_vars

C2_Witness ==
    /\ last.op = "fit" /\ last.hit /\ last.exc = NoExc /\ last.path = ModelPath
    /\ dumped[ModelPath].done /\ dumped[ModelPath].after = "fit"
    /\ clf._model # None
    /\ dumped[ModelPath].input[2] = clf._model.data
    /\ dumped[ModelPath].input[1] = clf._model.config
    /\ ~Called(last, "model.fit")

\* C3: after a fit and a dump to p, load(p) on a newly constructed
\* classifier succeeds and leaves it ready, not dirty, with the hash the
\* dumping classifier held.
C3_FitDumpLoad ==
    [][(last'.op = "load" /\ history.op = "new")
       => \A p \in Paths :
             (last'.path = p /\ dumped[p].done /\ dumped[p].after = "fit"
              /\ LoadCall(p))
             => /\ last'.exc = NoExc
                /\ clf'.ready /\ ~clf'.dirty
                /\ clf'.hash = dumped[p].hash]_vars

C3_Witness ==
    /\ last.op = "load" /\ last.exc = NoExc /\ last.path = ModelPath
    /\ history.op = "load" /\ history.fresh
    /\ dumped[ModelPath].done /\ dumped[ModelPath].after = "fit"
    /\ clf.ready /\ ~clf.dirty
    /\ clf.hash = dumped[ModelPath].hash /\ clf.hash # EmptyStr

\* C4: ready is true exactly when the classifier holds a model.
C4_ReadyIffModel == clf.ready <=> (clf._model # None)

\* C5 as stated, for a classifier that holds a model: dirty is true exactly
\* when the model was fit or loaded since the last completed dump.
C5_DirtyIffFitOrLoaded ==
    clf._model # None => (clf.dirty <=> (history.op \in {"fit", "load"}))

\* C5: dirty is true exactly when a fit has trained a model since the last
\* completed dump and the last successful load.
C5_DirtyIffFit == clf.dirty <=> (history.op = "fit")

C5_Witness ==
    /\ last.op = "load" /\ last.exc = NoExc
    /\ history.op = "load" /\ ~history.fresh
    /\ clf.ready /\ ~clf.dirty

\* C6: a fit with a previous_model_path whose hash file does not exist reads
\* the empty string as the recorded hash, computes a hash that is not the
\* empty string, and does not load from the path.
C6_MissingSidecarMisses ==
    [][last'.op = "fit"
       => \A p \in Paths, i \in FitInputs :
             (last'.path = p /\ ~sidecar[p].exists /\ FitCall(i[1], i[2], i[3], p))
             => /\ _get_model_hash(i[1], i[2], i[3]) # EmptyStr
                /\ ~last'.hit
                /\ ~Called(last', "joblib.load")]_vars

C6_Witness ==
    /\ last.op = "fit" /\ last.path = ModelPath /\ ~last.hit
    /\ ~sidecar[ModelPath].exists /\ file[ModelPath].kind = "pickle"
    /\ Called(last, "model.fit")

\* C7: predict, predict_proba and evaluate on a classifier no call has set
\* attributes of since its construction return None, raise nothing and call
\* neither the resource loader nor the model.
C7_UnfitReturnsNone ==
    (last.op \in {"predict", "predict_proba", "evaluate"} /\ history.op = "new")
    => (last.ret = None /\ last.exc = NoExc /\ last.calls = << >>)

C7_Witness ==
    /\ last.op = "evaluate" /\ history.op = "new"
    /\ clf = Classifier__init__ /\ last.ret = None

\* C8: a fit whose data has fewer than two distinct labels raises nothing
\* and leaves every attribute of the classifier as it was, with or without a
\* previous_model_path.
C8_FewLabelsNoOp ==
    [][last'.op = "fit"
       => \A p \in Paths \cup {NoPath}, i \in FitInputs :
             (last'.path = p /\ Cardinality(Classes(i[2])) < 2
              /\ FitCall(i[1], i[2], i[3], p))
             => (clf' = clf /\ last'.exc = NoExc)]_vars

C8_Witness ==
    /\ last.op = "fit" /\ last.path = ModelPath /\ sidecar[ModelPath].exists
    /\ last.exc = NoExc /\ ~last.hit
    /\ last.calls[Len(last.calls)] = "_get_queries_and_labels"
    /\ clf.ready /\ clf.dirty

\* C9: load on a path whose model file is missing or truncated raises
\* ClassifierLoadError naming the path, and nothing else.
C9_LoadErrorOnly ==
    (last.op = "load" /\ file[last.path].kind \in {"absent", "truncated"})
    => last.exc = Raised("ClassifierLoadError", last.path)

\* param_selection is a dict with a grid that is not None
HasGrid(param_selection) ==
    /\ param_selection # None
    /\ \E e \in param_selection.dict : e.k = "grid" /\ e.v # None

\* C10: a construction with model_type or features None raises TypeError
\* (also when no parameter source is given); otherwise one with params None
\* and param_selection None or without a non-None grid raises ValueError;
\* one with both required fields and exactly one of params and the grid
\* succeeds.
C10_ConfigConstruction ==
    cfg_result # None =>
      LET missing == cfg_args.model_type = None \/ cfg_args.features = None
          params == cfg_args.params # None
          grid == HasGrid(cfg_args.param_selection)
      IN /\ missing => cfg_result.exc.type = "TypeError"
         /\ (~missing /\ ~params /\ ~grid) => cfg_result.exc.type = "ValueError"
         /\ (~missing /\ (params # grid))
              => /\ cfg_result.exc = NoError
                 /\ cfg_result.obj.params = cfg_args.params
                 /\ cfg_result.obj.param_selection = cfg_args.param_selection
                 /\ cfg_result.obj.model_type = cfg_args.model_type
                 /\ cfg_result.obj.features = cfg_args.features

C10_Witness ==
    /\ cfg_result # None /\ cfg_result.exc.type = "TypeError"
    /\ cfg_args.features = None /\ cfg_args.model_type # None
    /\ cfg_args.params = None /\ cfg_args.param_selection = None

\* the required resources whose content differs between two calls
ChangedResources(a, b) ==
    {r \in required_resources(a.args.model_config) : a.args.rsc[r] # b.args.rsc[r]}

\* C11: of two calls of _get_model_hash with the same data and the same
\* configuration, whose resources differ in the content of exactly one
\* required resource, the hashes differ; and two calls with the same data,
\* configuration and contents of the required resources return the same
\* hash, in whatever orders required_resources() enumerated the names.
C11_ResourceChangesHash ==
    (hash_prev # None
     /\ hash_prev.args.model_config = hash_last.args.model_config
     /\ hash_prev.args.data = hash_last.args.data)
    => /\ Cardinality(ChangedResources(hash_prev, hash_last)) = 1
            => hash_prev.hash # hash_last.hash
       /\ ChangedResources(hash_prev, hash_last) = {}
            => hash_prev.hash = hash_last.hash

C11_Witness ==
    /\ hash_prev # None
    /\ hash_prev.args.model_config = FreqConfig
    /\ hash_last.args = [hash_prev.args EXCEPT !.rsc["w_freq"] = 2]
    /\ hash_prev.args.rsc["w_freq"] = 1
    /\ hash_prev.resources # hash_last.resources
    /\ hash_prev.hash # hash_last.hash

\* every element of items is exactly once in list, and list has no others
SamePairs(list, items) ==
    /\ Len(list) = Len(items)
    /\ \A i \in DOMAIN items : Cardinality({j \in DOMAIN list : list[j] = items[i]}) = 1

Descending(list) ==
    \A j \in DOMAIN list : j < Len(list) => list[j].proba >= list[j + 1].proba

\* C12: predict_proba on a classifier whose ready is true returns a list
\* that holds every (label, probability) pair of the model's result exactly
\* once, each probability greater than or equal to the next one.
C12_SortedPairs ==
    [][(last'.op = "predict_proba" /\ clf.ready)
       => /\ last'.ret # None
          /\ \A kind \in QueryKinds, items \in ModelResults(clf) :
                PredictProbaCall(kind, items)
                => /\ SamePairs(last'.ret.list, items)
                   /\ Descending(last'.ret.list)]_vars

\* C12 for a classifier that holds a model
C12_SortedPairsOfModel ==
    [][(last'.op = "predict_proba" /\ ~NoModel(clf))
       => /\ last'.ret # None
          /\ \A kind \in QueryKinds, items \in ModelResults(clf) :
                PredictProbaCall(kind, items)
                => /\ SamePairs(last'.ret.list, items)
                   /\ Descending(last'.ret.list)]_vars

\* C13: a call of predict, predict_proba or evaluate leaves _model, ready,
\* dirty, config and hash of the classifier as they were.
C13_QueriesChangeNothing ==
    [][last'.op \in {"predict", "predict_proba", "evaluate"} => clf' = clf]_vars

C13_Witness ==
    /\ last.op = "evaluate" /\ last.ret # None
    /\ clf.ready /\ clf.dirty /\ clf.hash # EmptyStr

\* C14: a fit that takes the cache-hit path has called neither
\* create_model nor _get_queries_and_labels nor the model's fit, and has
\* called the model's initialize_resources only as load does, right after
\* joblib.load and without training data.
C14_HitBuildsNothing ==
    (last.op = "fit" /\ last.hit)
    => /\ ~Called(last, "create_model")
       /\ ~Called(last, "_get_queries_and_labels")
       /\ ~Called(last, "model.fit")
       /\ \A k \in DOMAIN last.calls :
             last.calls[k] = "model.initialize_resources"
             => (k > 1 /\ last.calls[k - 1] = "joblib.load")

\* C14 without create_model: what does hold on the cache-hit path
C14_HitResolvesNothing ==
    (last.op = "fit" /\ last.hit)
    => /\ Called(last, "create_model")
       /\ ~Called(last, "_get_queries_and_labels")
       /\ ~Called(last, "model.fit")
       /\ \A k \in DOMAIN last.calls :
             last.calls[k] = "model.initialize_resources"
             => (k > 1 /\ last.calls[k - 1] = "joblib.load")

\* the params the configuration returned by _get_model_config is built with
ResultParams == DictGet(merge_result.model_config, "params")

\* C15: when _get_model_config merges the overrides on the base
\* configuration, a param_selection override that is not None (an empty dict
\* too) given without params leaves no params in the resulting
\* configuration; when params is given, or no param_selection is given, the
\* resulting configuration has the given params, or else the inherited ones.
C15_SelectionDropsParams ==
    (merge_result # None /\ merge_result.merged)
    => LET kwargs == merge_args.kwargs
       IN /\ (DictGet(kwargs, "param_selection") # None /\ ~HasKey(kwargs, "params"))
               => ResultParams = None
          /\ (HasKey(kwargs, "params") \/ ~HasKey(kwargs, "param_selection"))
               => ResultParams = IF HasKey(kwargs, "params")
                                 THEN DictGet(kwargs, "params")
                                 ELSE DictGet(merge_args.loaded_config, "params")

\* C15 as the code has it: the inherited params are dropped exactly when
\* the param_selection override is a dict that is not empty and params is
\* not given, or given as None or as an empty dict
C15_TruthySelectionDropsParams ==
    (merge_result # None /\ merge_result.merged)
    => LET kwargs == merge_args.kwargs
       IN ResultParams =
            IF SelectionWithoutParams(kwargs) THEN None
            ELSE IF HasKey(kwargs, "params") THEN DictGet(kwargs, "params")
            ELSE DictGet(merge_args.loaded_config, "params")

\* C16: a ClassifierConfig that was constructed has exactly one of params
\* and the grid of param_selection present and not None.
C16_ExactlyOneSource ==
    (cfg_result # None /\ cfg_result.exc = NoError)
    => ((cfg_result.obj.params # None) # HasGrid(cfg_result.obj.param_selection))

\* C16 without "never both": a ClassifierConfig that was constructed has
\* params or the grid of param_selection
C16_SomeSource ==
    (cfg_result # None /\ cfg_result.exc = NoError)
    => (cfg_result.obj.params # None \/ HasGrid(cfg_result.obj.param_selection))

\* what C17 says of a dump to the path that has ended: the hash file holds
\* the hash of the classifier and the model file its model, dirty is false,
\* and _model, ready, config and hash are as before
DumpedTo(path) ==
    /\ sidecar'[path] = SidecarText(clf.hash)
    /\ file'[path] = Pickle(clf._model)
    /\ ~clf'.dirty
    /\ clf' = [clf EXCEPT !.dirty = FALSE]

\* C17: a dump, in any state of the classifier and to any path, that no
\* failure of the file system while writing interrupts, ends with the hash
\* file holding the classifier's hash and the model file its model, with
\* dirty false and _model, ready, config and hash unchanged.
C17_DumpWritesBoth ==
    [][(last'.op = "dump" /\ last'.exc.type # "IOError")
       => \A p \in Paths : (last'.path = p /\ DumpCall(p)) => DumpedTo(p)]_vars

\* C17 for the paths that have a folder part
C17_DumpInFolderWritesBoth ==
    [][(last'.op = "dump" /\ last'.exc.type # "IOError")
       => \A p \in Paths :
            (last'.path = p /\ dirname(p) # "" /\ DumpCall(p)) => DumpedTo(p)]_vars

\* C18: a load(path) that raises nothing, in whatever state the classifier
\* was, leaves ready true, dirty false and hash equal to the text of the
\* hash file of the path, or to the empty string when there is no such
\* file; and a load of a readable model file without a hash file raises
\* nothing.
C18_LoadSetsState ==
    [][last'.op = "load"
       => \A p \in Paths :
            (last'.path = p /\ LoadCall(p))
            => /\ last'.exc = NoExc
                   => /\ clf'.ready /\ ~clf'.dirty
                      /\ clf'.hash = IF sidecar[p].exists THEN sidecar[p].text
                                      ELSE EmptyStr
               /\ (file[p].kind = "pickle" /\ ~sidecar[p].exists)
                   => last'.exc = NoExc]_vars

C18_Witness ==
    /\ last.op = "load" /\ last.exc = NoExc
    /\ ~sidecar[last.path].exists
    /\ history.op = "load" /\ ~history.fresh
    /\ clf._model # None /\ ModelHash(clf._model) # clf.hash
    /\ clf.ready /\ ~clf.dirty /\ clf.hash = EmptyStr

\* C19: a load that raises ClassifierLoadError, called directly or by a fit
\* on its cache-hit path, leaves _model, ready, dirty, config and hash as
\* they were; the fit raises the error of its load and calls neither
\* _get_queries_and_labels nor the model's fit after it.
C19_LoadErrorChangesNothing ==
    [][last'.op \in {"load", "fit"}
       => /\ last'.exc.type = "ClassifierLoadError" => clf' = clf
          /\ (last'.op = "fit" /\ last'.hit /\ file[last'.path].kind # "pickle")
                => /\ last'.exc # NoExc
                   /\ clf' = clf
                   /\ last'.calls[Len(last'.calls)] = "joblib.load"]_vars

C19_Witness ==
    /\ last.op = "fit" /\ last.hit
    /\ last.exc = Raised("ClassifierLoadError", ModelPath)
    /\ file[ModelPath].kind = "truncated"
    /\ clf.ready /\ clf.dirty /\ clf._model # None
    /\ clf.hash # sidecar[ModelPath].text

\* C20: in every reachable state dirty implies ready, and no call of fit,
\* dump, load, predict, predict_proba or evaluate, whether it returns or
\* raises, takes a classifier from ready to not ready.
C20_DirtyImpliesReadyForGood ==
    /\ [](clf.dirty => clf.ready)
    /\ [][(clf.ready /\ last'.op # "__init__") => clf'.ready]_vars

C20_Witness ==
    /\ last.op = "load" /\ last.exc # NoExc
    /\ clf.dirty /\ clf.ready
====
